---- MODULE Spec2Model ----
(***************************************************************************)
(* Model of salesgpt/zhipullm.py: the ZHIPUAI adapter.                     *)
(*                                                                         *)
(*   ZHIPUAI._call           builds an authenticated request from a prompt *)
(*                           and the instance's configuration, posts it,   *)
(*                           validates the response envelope and returns   *)
(*                           the text.                                     *)
(*   ZHIPUAI.generate_token  turns "<id>.<secret>" into a signed token.    *)
(*                                                                         *)
(* Conventions.  A Python str is a sequence of one-character strings.  A   *)
(* value that may be None (or a dict key that may be absent) is a sequence *)
(* of length 0 or 1: <<>> is None/absent, <<v>> is v.  A dict is a         *)
(* function from its keys; JSON numbers of the payload are kept as their   *)
(* literals ("0.7").  Exceptions are named after the place that raises     *)
(* them (see Failure kinds below).                                         *)
(***************************************************************************)
EXTENDS Integers, Sequences, FiniteSets

VARIABLES
    self,         \* the adapter instance: its configuration fields
    pc,           \* position of the running operation
    caller,       \* "_call" or "generate_token": the operation entered
    prompt,       \* _call argument
    stop,         \* _call argument: None or a list of str
    kwargs,       \* _call argument: the keyword overrides
    apikey,       \* generate_token argument (None when the env var is absent)
    exp_seconds,  \* generate_token argument
    idsecret,     \* generate_token locals id, secret
    exp_ms,       \* the "exp" entry of generate_token's payload, once computed
    bear_token,   \* the token generate_token returned
    request,      \* the HTTP request in flight
    response,     \* the HTTP outcome received
    result,       \* how the operation ended: text, token or exception
    posts,        \* requests.post calls of this invocation
    tokens        \* jwt.encode calls of this invocation

vars == <<self, pc, caller, prompt, stop, kwargs, apikey, exp_seconds, idsecret,
          exp_ms, bear_token, request, response, result, posts, tokens>>

----------------------------------------------------------------------------
(* Bounds of the model *)

MaxLen == 3       \* longest generated content enumerated over TextAlphabet
MaxKeyLen == 3    \* longest credential enumerated over KeyAlphabet
MaxClock == 1     \* latest clock reading, in milliseconds

----------------------------------------------------------------------------
(* Python values *)

None == <<>>
Some(v) == <<v>>
IsNone(o) == o = <<>>
Val(o) == o[1]

Q == "\""
TextAlphabet == {Q, "a", "S"}
KeyAlphabet == {"k", "."}

StringsOver(A, n) == UNION {[1..k -> A] : k \in 0..n}

Min(S) == CHOOSE x \in S : \A y \in S : x <= y

\* dict.update: b's entries overwrite a's
Update(a, b) == [k \in (DOMAIN a) \cup (DOMAIN b) |-> IF k \in DOMAIN b THEN b[k] ELSE a[k]]

\* a strip of the quote characters themselves, text.strip('"'), in place of the slice
RECURSIVE StripQuoteChars(_)
StripQuoteChars(text) ==
    IF text # <<>> /\ Head(text) = Q THEN StripQuoteChars(Tail(text))
    ELSE IF text # <<>> /\ text[Len(text)] = Q THEN StripQuoteChars(SubSeq(text, 1, Len(text) - 1))
    ELSE text

\* text[1:-1]
Slice1m1(text) == IF Len(text) < 2 THEN <<>> ELSE SubSeq(text, 2, Len(text) - 1)

----------------------------------------------------------------------------
(* Failure kinds: the exception each raise site produces.                   *)
(*   InvalidCredentialError   line 150  Exception("invalid apikey", e)      *)
(*   TransportError           line 108  ValueError("Error raised by ...")   *)
(*   EndpointError            line 113  ValueError("Failed with response")  *)
(*   ResponseDecodeError      line 135  ValueError("Error raised during")   *)
(*   UnexpectedResponseError  line 132  ValueError("Unexpected response")   *)
(*   RemoteServiceError       line 122  ValueError("Failed with response(") *)
(*   MissingContentError      line 130  ValueError("No content in ...")     *)
(* KeyError, IndexError and TypeError are raised by the interpreter on a    *)
(* missing key, an empty list and a value of the wrong type; no handler of  *)
(* _call catches them.                                                      *)

Outcome(kind) == [kind |-> kind, text |-> <<>>, code |-> None, msg |-> None]
Returned(text) == [Outcome("text") EXCEPT !.text = text]
RemoteFailure(code, msg) == [Outcome("RemoteServiceError") EXCEPT !.code = Some(code), !.msg = Some(msg)]

----------------------------------------------------------------------------
(* generate_token *)

DefaultExpSeconds == 300

HasDot(s) == \E i \in 1..Len(s) : s[i] = "."
FirstDot(s) == Min({i \in 1..Len(s) : s[i] = "."})

\* str.split("."): every "." separates
RECURSIVE SplitDot(_)
SplitDot(s) ==
    IF ~HasDot(s) THEN <<s>>
    ELSE <<SubSeq(s, 1, FirstDot(s) - 1)>> \o SplitDot(SubSeq(s, FirstDot(s) + 1, Len(s)))

\* apikey.split(".", 1) in place of apikey.split(".")
SplitKeyFirstDot(k) ==
    IF IsNone(k) THEN None
    ELSE IF HasDot(Val(k))
    THEN Some(<<SubSeq(Val(k), 1, FirstDot(Val(k)) - 1),
                SubSeq(Val(k), FirstDot(Val(k)) + 1, Len(Val(k)))>>)
    ELSE None

\* a split that pads what is missing in place of one that raises
SplitKeyLenient(k) ==
    IF IsNone(k) THEN Some(<< <<>>, <<>> >>)
    ELSE Some(<<SplitDot(Val(k))[1],
                IF Len(SplitDot(Val(k))) >= 2 THEN SplitDot(Val(k))[2] ELSE <<>> >>)

\* try: id, secret = apikey.split(".")   None when the except branch is taken:
\* apikey is None (AttributeError) or the unpacking fails (ValueError)
SplitKey(k) ==
    IF IsNone(k) THEN None
    ELSE IF Len(SplitDot(Val(k))) = 2 THEN Some(SplitDot(Val(k)))
    ELSE None

\* the payload dict of generate_token
TokenPayload(id, exp, timestamp) == [api_key |-> id, exp |-> exp, timestamp |-> timestamp]

\* jwt.encode(payload, secret, algorithm="HS256", headers=...): the signed token
\* is determined by its header, its claims and the key
JwtEncode(payload, secret) ==
    [header |-> [alg |-> "HS256", sign_type |-> "SIGN"], claims |-> payload, key |-> secret]

\* int(round(time.time() * 1000)): a reading of the wall clock, in milliseconds
ClockReadings == 0..MaxClock

----------------------------------------------------------------------------
(* _call: the payload *)

BasePayload(s, p) ==
    [prompt |-> p, temperature |-> s.temperature, max_length |-> s.max_token, top_p |-> s.top_p]

\* _model_kwargs = self.model_kwargs or {}
OrEmpty(mk) == IF IsNone(mk) THEN <<>> ELSE Val(mk)

\* the two update calls in the other order
BuildPayloadKwargsFirst(s, p, kw) ==
    Update(Update(BasePayload(s, p), kw), OrEmpty(s.model_kwargs))

\* payload.update(_model_kwargs); payload.update(kwargs)
BuildPayload(s, p, kw) == Update(Update(BasePayload(s, p), OrEmpty(s.model_kwargs)), kw)

\* _model_kwargs.update(kwargs): the overrides written into the instance's own dict
ModelKwargsAliased(mk, kw) == IF IsNone(mk) THEN mk ELSE Some(Update(Val(mk), kw))

\* self.model_kwargs once the payload is built: both update calls change the
\* fresh payload dict, never the dict they read
ModelKwargsAfterBuild(mk, kw) == mk

BuildHeaders(token) == [ContentType |-> "application/json", Authorization |-> <<"Bearer", token>>]

----------------------------------------------------------------------------
(* _call: the response *)

\* enforce_stop_tokens(text, stop) is re.split("|".join(stop), text)[0]: the
\* text before the leftmost match of any stop sequence; an empty list joins to
\* the empty pattern, which matches at the start
StopPatterns(st) == IF st = <<>> THEN {<<>>} ELSE {st[i] : i \in DOMAIN st}
MatchesAt(text, p, i) == i + Len(p) - 1 <= Len(text) /\ SubSeq(text, i, i + Len(p) - 1) = p
MatchPositions(text, st) ==
    {i \in 1..(Len(text) + 1) : \E p \in StopPatterns(st) : MatchesAt(text, p, i)}
enforce_stop_tokens(text, st) ==
    IF MatchPositions(text, st) = {} THEN text
    ELSE SubSeq(text, 1, Min(MatchPositions(text, st)) - 1)

\* lines 140-144 on a str
PostProcess(text, st) ==
    Slice1m1(IF IsNone(st) THEN text ELSE enforce_stop_tokens(text, Val(st)))

\* parsed_response[content_keys]['choices'][0]['content'], then lines 140-144
Extract(data, st) ==
    IF data.kind # "dict" THEN Outcome("TypeError")
    ELSE IF IsNone(data.choices) THEN Outcome("KeyError")
    ELSE IF Val(data.choices) = <<>> THEN Outcome("IndexError")
    ELSE IF IsNone(Val(data.choices)[1].content) THEN Outcome("KeyError")
    ELSE IF Val(Val(data.choices)[1].content).kind # "str" THEN Outcome("TypeError")
    ELSE Returned(PostProcess(Val(Val(data.choices)[1].content).s, st))

\* lines 120-132 on the parsed body
Unwrap(body, st) ==
    IF body.kind # "dict" THEN Outcome("UnexpectedResponseError")
    ELSE IF IsNone(body.code) THEN Outcome("KeyError")
    ELSE IF Val(body.code) # 200 THEN
        IF IsNone(body.msg) THEN Outcome("KeyError")
        ELSE RemoteFailure(Val(body.code), Val(body.msg))
    ELSE IF IsNone(body.data) THEN Outcome("MissingContentError")
    ELSE Extract(Val(body.data), st)

\* lines 105-144 on the outcome of requests.post
HandleResponse(resp, st) ==
    IF ~resp.delivered THEN Outcome("TransportError")
    ELSE IF resp.status # 200 THEN Outcome("EndpointError")
    ELSE IF resp.body.kind = "notjson" THEN Outcome("ResponseDecodeError")
    ELSE Unwrap(resp.body, st)

\* a transport failure sent back to the request
RetryOnTransportFailure(o) == IF o.kind = "TransportError" THEN "build" ELSE "done"

\* a raise leaves _call: nothing is caught and tried again
AfterReceive(o) == "done"

----------------------------------------------------------------------------
(* Inputs: what the caller, the environment and the endpoint may supply *)

Hello == <<Q, "h", "e", "l", "l", "o", Q>>
FooStopBar == <<Q, "f", "o", "o", " ", "S", "T", "O", "P", " ", "b", "a", "r", Q>>
STOP == <<"S", "T", "O", "P">>

EmptyDict == [k \in {} |-> ""]

Prompts == {"Who are you?"}
StopLists == {None, Some(<<>>), Some(<< <<"S">> >>), Some(<< <<"a">>, <<"S">> >>), Some(<<STOP>>)}
KwargsChoices == {EmptyDict, [top_p |-> "0.5"], [max_length |-> "100", request_id |-> "r1"]}
ModelKwargsChoices ==
    {None, Some(EmptyDict), Some([top_p |-> "0.9"]), Some([top_p |-> "0.9", request_id |-> "r0"])}
Configurations ==
    [endpoint_url : {"http://127.0.0.1:8000/"}, model_kwargs : ModelKwargsChoices,
     max_token : {"20000"}, temperature : {"0.1"}, top_p : {"0.7"}]

Credentials == StringsOver(KeyAlphabet, MaxKeyLen)
EnvKeys == {None} \cup {Some(k) : k \in Credentials}
ExpOffsets == {0, 1, DefaultExpSeconds}

Contents == StringsOver(TextAlphabet, MaxLen) \cup {Hello, FooStopBar}
StrContent(s) == [kind |-> "str", s |-> s]
IntContent == [kind |-> "int", s |-> <<>>]
Choice(c) == [content |-> c]
DictData(ch) == [kind |-> "dict", choices |-> ch]
NullData == [kind |-> "null", choices |-> None]
\* the shapes "data" may have around one fixed content
DataShapes ==
    {None, Some(NullData), Some(DictData(None)), Some(DictData(Some(<<>>))),
     Some(DictData(Some(<<Choice(None)>>))), Some(DictData(Some(<<Choice(Some(IntContent))>>))),
     Some(DictData(Some(<<Choice(Some(StrContent(Hello)))>>)))}
DictBody(code, msg, data) == [kind |-> "dict", code |-> code, msg |-> msg, data |-> data]
OtherBody(kind) == [kind |-> kind, code |-> None, msg |-> None, data |-> None]
Envelopes ==
    {DictBody(code, msg, data) :
        code \in {None, Some(200), Some(500)}, msg \in {None, Some("bad request")},
        data \in DataShapes}
\* the envelopes around the content "hello": a status other than 200 is met with each
HelloEnvelopes ==
    {b \in Envelopes : b.data = Some(DictData(Some(<<Choice(Some(StrContent(Hello)))>>)))}
Completions ==
    {DictBody(Some(200), Some("ok"), Some(DictData(Some(<<Choice(Some(StrContent(s)))>>)))) :
        s \in Contents}
Bodies == {OtherBody("notjson"), OtherBody("list")} \cup Envelopes \cup Completions
Delivered(status, body) == [delivered |-> TRUE, status |-> status, body |-> body]
TransportFailure == [delivered |-> FALSE, status |-> 0, body |-> OtherBody("notjson")]
Responses ==
    {TransportFailure} \cup {Delivered(200, b) : b \in Bodies}
    \cup {Delivered(503, b) : b \in {OtherBody("notjson"), OtherBody("list")} \cup HelloEnvelopes}

----------------------------------------------------------------------------
(* The state machine *)

Init ==
    /\ self \in Configurations
    /\ pc = "idle"
    /\ caller = "none"
    /\ prompt = None
    /\ stop = None
    /\ kwargs = EmptyDict
    /\ apikey = None
    /\ exp_seconds = 0
    /\ idsecret = None
    /\ exp_ms = None
    /\ bear_token = None
    /\ request = None
    /\ response = None
    /\ result = None
    /\ posts = 0
    /\ tokens = 0

Entered ==
    /\ pc = "idle"
    /\ pc' = "gt_split"
    /\ UNCHANGED <<self, idsecret, exp_ms, bear_token, request, response, result,
                   posts, tokens>>

\* _call(prompt, stop, **kwargs), lines 81-86: reads ZHIPUAI_API_KEY and enters
\* generate_token(api_key, 300)
Call(p, st, kw, key) ==
    /\ Entered
    /\ caller' = "_call"
    /\ prompt' = Some(p)
    /\ stop' = st
    /\ kwargs' = kw
    /\ apikey' = key
    /\ exp_seconds' = DefaultExpSeconds

\* generate_token(apikey, exp_seconds) called on its own
GenerateToken(key, off) ==
    /\ Entered
    /\ caller' = "generate_token"
    /\ prompt' = None
    /\ stop' = None
    /\ kwargs' = EmptyDict
    /\ apikey' = Some(key)
    /\ exp_seconds' = off

\* lines 147-150
GtSplit ==
    /\ pc = "gt_split"
    /\ IF IsNone(SplitKey(apikey))
       THEN /\ result' = Some(Outcome("InvalidCredentialError"))
            /\ pc' = "done"
            /\ UNCHANGED idsecret
       ELSE /\ idsecret' = SplitKey(apikey)
            /\ pc' = "gt_exp"
            /\ UNCHANGED result
    /\ UNCHANGED <<self, caller, prompt, stop, kwargs, apikey, exp_seconds, exp_ms,
                   bear_token, request, response, posts, tokens>>

\* line 154: the first reading of the clock
GtReadExp(now) ==
    /\ pc = "gt_exp"
    /\ exp_ms' = Some(now + exp_seconds * 1000)
    /\ pc' = "gt_ts"
    /\ UNCHANGED <<self, caller, prompt, stop, kwargs, apikey, exp_seconds, idsecret,
                   bear_token, request, response, result, posts, tokens>>

\* lines 155-163: the second reading of the clock, which is not earlier than
\* the first, then jwt.encode; generate_token returns
GtReadTimestamp(now) ==
    /\ pc = "gt_ts"
    /\ now >= Val(exp_ms) - exp_seconds * 1000
    /\ bear_token' =
         Some(JwtEncode(TokenPayload(Val(idsecret)[1], Val(exp_ms), now), Val(idsecret)[2]))
    /\ tokens' = tokens + 1
    /\ IF caller = "_call"
       THEN pc' = "build" /\ UNCHANGED result
       ELSE pc' = "done" /\ result' = Some(Outcome("token"))
    /\ UNCHANGED <<self, caller, prompt, stop, kwargs, apikey, exp_seconds, idsecret,
                   exp_ms, request, response, posts>>

\* lines 88-106: headers, payload, requests.post is entered
Send ==
    /\ pc = "build"
    /\ request' = Some([url |-> self.endpoint_url, headers |-> BuildHeaders(Val(bear_token)),
                        json |-> BuildPayload(self, Val(prompt), kwargs)])
    /\ self' = [self EXCEPT !.model_kwargs = ModelKwargsAfterBuild(self.model_kwargs, kwargs)]
    /\ posts' = posts + 1
    /\ pc' = "awaiting"
    /\ UNCHANGED <<caller, prompt, stop, kwargs, apikey, exp_seconds, idsecret, exp_ms,
                   bear_token, response, result, tokens>>

\* lines 106-144: requests.post returns or raises, and _call ends
Receive(resp) ==
    /\ pc = "awaiting"
    /\ response' = Some(resp)
    /\ result' = Some(HandleResponse(resp, stop))
    /\ pc' = AfterReceive(HandleResponse(resp, stop))
    /\ UNCHANGED <<self, caller, prompt, stop, kwargs, apikey, exp_seconds, idsecret,
                   exp_ms, bear_token, request, posts, tokens>>

\* the operation has returned or raised: its frame, with every local, is gone
Return ==
    /\ pc = "done"
    /\ pc' = "idle"
    /\ caller' = "none"
    /\ prompt' = None
    /\ stop' = None
    /\ kwargs' = EmptyDict
    /\ apikey' = None
    /\ exp_seconds' = 0
    /\ idsecret' = None
    /\ exp_ms' = None
    /\ bear_token' = None
    /\ request' = None
    /\ response' = None
    /\ result' = None
    /\ posts' = 0
    /\ tokens' = 0
    /\ UNCHANGED self

Next ==
    \/ \E p \in Prompts, st \in StopLists, kw \in KwargsChoices, key \in EnvKeys :
          Call(p, st, kw, key)
    \/ \E key \in Credentials, off \in ExpOffsets : GenerateToken(key, off)
    \/ GtSplit
    \/ \E now \in ClockReadings : GtReadExp(now)
    \/ \E now \in ClockReadings : GtReadTimestamp(now)
    \/ Send
    \/ \E resp \in Responses : Receive(resp)
    \/ Return

Spec == Init /\ [][Next]_vars

----------------------------------------------------------------------------
(* Properties *)

CallDone == pc = "done" /\ caller = "_call"
Answered == CallDone /\ ~IsNone(response)
Succeeded == Answered /\ Val(result).kind = "text"
\* data.choices[0].content of the response received, when the call succeeded
ContentOf(resp) == Val(Val(Val(resp.body.data).choices)[1].content).s

DotCount(s) == Cardinality({i \in 1..Len(s) : s[i] = "."})
BeforeFirstDot(s) == SubSeq(s, 1, FirstDot(s) - 1)
WellFormedKey(k) == ~IsNone(k) /\ DotCount(Val(k)) = 1

GtFailed == result = Some(Outcome("InvalidCredentialError"))
GtSucceeded == ~IsNone(bear_token)

TypedFailures ==
    {"InvalidCredentialError", "MissingCredentialError", "TransportError", "EndpointError",
     "ResponseDecodeError", "UnexpectedResponseError", "RemoteServiceError",
     "MissingContentError"}

\* C1: the failure conditions of _call are checked in a fixed order and the
\* first that holds decides the outcome: transport failure, then status # 200,
\* then a body that is not JSON, then a body that is not a mapping, then a
\* code # 200 (RemoteServiceError carrying the remote code and msg), then a
\* missing data key.
C1_ErrorPolicyOrder ==
    Answered =>
        LET r == Val(response)
            o == Val(result)
        IN  IF ~r.delivered THEN o.kind = "TransportError"
            ELSE IF r.status # 200 THEN o.kind = "EndpointError"
            ELSE IF r.body.kind = "notjson" THEN o.kind = "ResponseDecodeError"
            ELSE IF r.body.kind # "dict" THEN o.kind = "UnexpectedResponseError"
            ELSE IF ~IsNone(r.body.code) /\ Val(r.body.code) # 200
            THEN o.kind = "RemoteServiceError" /\ o.code = r.body.code /\ o.msg = r.body.msg
            ELSE IF ~IsNone(r.body.code) /\ IsNone(r.body.data)
            THEN o.kind = "MissingContentError"
            ELSE TRUE

\* the text strictly before the earliest occurrence of one of the sequences of
\* st, the whole text when none occurs
Occurrences(text, st) ==
    {i \in 1..Len(text) : \E j \in DOMAIN st : st[j] # <<>> /\ MatchesAt(text, st[j], i)}
BeforeEarliestStop(text, st) ==
    IF Occurrences(text, st) = {} THEN text
    ELSE SubSeq(text, 1, Min(Occurrences(text, st)) - 1)
QuoteWrapped(text) == Len(text) >= 2 /\ text[1] = Q /\ text[Len(text)] = Q

\* C2: with a stop list (of at least one sequence) and a content wrapped in
\* quote characters, the text returned is the quote-free content strictly
\* before the earliest stop match, and the whole quote-free content when no
\* stop sequence matches.
C2_StopTruncationOfQuoteFreeContent ==
    (Succeeded /\ ~IsNone(stop) /\ Val(stop) # <<>> /\ QuoteWrapped(ContentOf(Val(response))))
        => Val(result).text =
               BeforeEarliestStop(Slice1m1(ContentOf(Val(response))), Val(stop))

\* C3: the claims a generated token signs satisfy
\* exp = timestamp + exp_seconds * 1000, whatever the clock does meanwhile.
C3_ExpiryIsTimestampPlusOffset ==
    GtSucceeded =>
        Val(bear_token).claims.exp = Val(bear_token).claims.timestamp + exp_seconds * 1000

\* C4 as stated: a credential with a "." yields a token whose api_key is the
\* text before the first ".", a credential with none fails with
\* InvalidCredentialError.
C4_SplitOnFirstDot ==
    ((GtFailed \/ GtSucceeded) /\ ~IsNone(apikey)) =>
        IF HasDot(Val(apikey))
        THEN GtSucceeded /\ Val(bear_token).claims.api_key = BeforeFirstDot(Val(apikey))
        ELSE GtFailed

\* C4 as amended: a credential with exactly one "." yields a token whose
\* api_key is the text before it, signed with the text after it; a credential
\* with no "." or with more than one fails with InvalidCredentialError.
C4_SplitOnEveryDot ==
    ((GtFailed \/ GtSucceeded) /\ ~IsNone(apikey)) =>
        IF DotCount(Val(apikey)) = 1
        THEN /\ GtSucceeded
             /\ Val(bear_token).claims.api_key = BeforeFirstDot(Val(apikey))
             /\ Val(bear_token).key = SubSeq(Val(apikey), FirstDot(Val(apikey)) + 1, Len(Val(apikey)))
        ELSE GtFailed /\ ~GtSucceeded

\* generate_token has refused a credential whose secret part holds a further "."
C4_Witness ==
    /\ pc = "done"
    /\ caller = "generate_token"
    /\ apikey = Some(<<"k", ".", ".">>)
    /\ GtFailed

\* C5: every invocation of _call ends with a text or with one of the typed
\* failures of the taxonomy.
C5_TypedOutcomesOnly ==
    CallDone => Val(result).kind \in {"text"} \cup TypedFailures

\* C6: for each key of the payload sent, the value is the override's if the
\* overrides have the key, else the extra model parameters' if they have it,
\* else the base value; the payload has no other key.
C6_PayloadMergeOrder ==
    ~IsNone(request) =>
        LET sent == Val(request).json
            extra == IF IsNone(self.model_kwargs) THEN EmptyDict ELSE Val(self.model_kwargs)
            base == [prompt |-> Val(prompt), temperature |-> self.temperature,
                     max_length |-> self.max_token, top_p |-> self.top_p]
        IN  /\ DOMAIN sent = (DOMAIN base) \cup (DOMAIN extra) \cup (DOMAIN kwargs)
            /\ \A k \in DOMAIN sent :
                 sent[k] = IF k \in DOMAIN kwargs THEN kwargs[k]
                           ELSE IF k \in DOMAIN extra THEN extra[k]
                           ELSE base[k]

\* extra top_p = 0.9 and override top_p = 0.5: top_p = 0.5 is sent
C6_Witness ==
    /\ ~IsNone(request)
    /\ self.model_kwargs = Some([top_p |-> "0.9"])
    /\ kwargs = [top_p |-> "0.5"]
    /\ Val(request).json.top_p = "0.5"

\* C7: an invocation issues at most one POST, failures included (posts counts
\* the requests of the invocation, whatever its outcome), only after a token
\* has been generated in this same invocation, and carrying that token.
C7_SinglePostAfterFreshToken ==
    /\ posts <= 1
    /\ tokens <= 1
    /\ posts = 1 =>
         /\ tokens = 1
         /\ ~IsNone(request)
         /\ Val(request).headers.Authorization = <<"Bearer", Val(bear_token)>>
    /\ ~IsNone(request) => posts = 1

\* a call that failed on the transport has ended with its one request issued
C7_Witness ==
    /\ CallDone
    /\ Val(result).kind = "TransportError"
    /\ posts = 1
    /\ tokens = 1

\* C8: when ZHIPUAI_API_KEY is absent or is not "<id>.<secret>", _call issues
\* no request, and once generate_token has looked at the credential the call
\* has ended with InvalidCredentialError.
C8_InvalidCredentialFailsBeforePost ==
    (caller = "_call" /\ ~WellFormedKey(apikey)) =>
        /\ posts = 0
        /\ IsNone(request)
        /\ pc \in {"gt_split", "done"}
        /\ pc = "done" => GtFailed

\* the environment variable was absent and the call has failed
C8_Witness ==
    /\ CallDone
    /\ IsNone(apikey)
    /\ GtFailed
    /\ posts = 0

====
